---------------------------- MODULE Spec2Model ----------------------------
(***************************************************************************)
(* A model of graph_analysis.py: the graph analyses (structural balance,   *)
(* Girvan-Newman partition, homophily, failure simulation, robustness,     *)
(* temporal replay) and the linear script main() that strings them.        *)
(*                                                                         *)
(* A graph is a record                                                     *)
(*   nodes     the node set (labels are small integers)                    *)
(*   edges     the edge set; an undirected edge is the set {u, v} of its   *)
(*             endpoints, a self-loop the singleton {u}                    *)
(*   sign      edge  -> its `sign` attribute, where present                *)
(*   color     node  -> its `color` attribute, where present               *)
(*   cc        node  -> its `cc` attribute, where present                  *)
(*   no        edge  -> its `no` attribute, where present                  *)
(*   community node  -> its `community` attribute, where present          *)
(* Ratios (cc, no, aspl, avg_comp) are kept exact as <<numerator,          *)
(* denominator>> pairs.  Nodes are iterated in ascending label order, the  *)
(* order in which the input file lists them.  The order of a node's        *)
(* neighbours and of the edges is the order of the file's edge list, which *)
(* the model leaves open where a result can depend on it: the breadth-     *)
(* first search takes the neighbours in any order, and among edges of      *)
(* equal betweenness any one is the first.                                 *)
(***************************************************************************)
EXTENDS Integers, Sequences, FiniteSets, TLC

VARIABLES
  G,      \* the graph main() loads and every analysis is handed
  pc,     \* the statement the run is at
  label,  \* balance: label
  q,      \* balance: q
  ret,    \* the value the last call returned
  n,      \* girvan_newman_partition: n
  comp,   \* girvan_newman_partition: comp
  first,  \* girvan_newman_partition: the generator of next(girvan_newman(G))
  gen,    \* girvan_newman_partition: gen
  iter,   \* the number of iterations the running loop has made
  calls,  \* the completed calls: their argument and result
  H,      \* simulate_failures, robustness: H
  k,      \* simulate_failures, robustness: k
  trials, \* robustness: trials
  res,    \* robustness: res
  csv,    \* the rows of the event file
  ev,     \* temporal: ev
  snaps,  \* temporal: snaps
  start,  \* temporal: the graph as it was at the call
  warned, \* load_graph: the warning of an empty graph was printed
  written \* export_graph: the graph written to the output path

vars == <<G, pc, label, q, ret, n, comp, first, gen, iter, calls, H, k, trials, res,
          csv, ev, snaps, start, warned, written>>

balanceLocals == <<label, q>>

gnLocals == <<n, comp, first, gen, iter, calls>>

failLocals == <<H, k, trials, res>>

temporalLocals == <<csv, ev, snaps, start>>

mainLocals == <<warned, written>>

\* Largest number of nodes of an input graph.
MaxNodes == 3

None == "None"

EmptyMap == [x \in {} |-> 0]

\* The function f as a table of its values, each computed once.
Table(f) == f @@ EmptyMap

Restrict(f, S) == [x \in (DOMAIN f) \cap S |-> f[x]]

Min(a, b) == IF a <= b THEN a ELSE b

MinOf(S) == CHOOSE x \in S : \A y \in S : x <= y

\* sorted(S) of a set of integers.
RECURSIVE Sorted(_)
Sorted(S) ==
  IF S = {} THEN <<>>
  ELSE LET m == MinOf(S) IN <<m>> \o Sorted(S \ {m})

\* Every order in which the elements of S can be iterated.
Orderings(S) ==
  {s \in [1..Cardinality(S) -> S] : \A i, j \in 1..Cardinality(S) : i # j => s[i] # s[j]}

-----------------------------------------------------------------------------
(* The graph library's operations used by the program.                     *)

\* Every edge a graph on node set N can have (self-loops included).
PossibleEdges(N) == {{u, v} : u \in N, v \in N}

Neighbors(g, u) == {v \in g.nodes : {u, v} \in g.edges}

\* G.degree(u): a self-loop counts twice.
Degree(g, u) == Cardinality(Neighbors(g, u) \ {u}) + (IF {u} \in g.edges THEN 2 ELSE 0)

\* A graph with the given nodes and edges and no attributes.
PlainGraph(N, E) ==
  [nodes |-> N, edges |-> E, sign |-> EmptyMap, color |-> EmptyMap,
   cc |-> EmptyMap, no |-> EmptyMap, community |-> EmptyMap]

\* The node sets of the input graphs: 0 to MaxNodes nodes.
NodeSets == {1..size : size \in 0..MaxNodes}

\* The input file's nodes: one of the given node sets.
ReadNodes(nodeSets, next) ==
  /\ pc = "read_nodes"
  /\ \E N \in nodeSets : G' = PlainGraph(N, {})
  /\ pc' = next

\* The edges between two different nodes of N.
ProperEdges(N) == {e \in PossibleEdges(N) : Cardinality(e) = 2}

\* The input file's edges: any of the candidate edges.
ReadEdges(candidates, next) ==
  /\ pc = "read_edges"
  /\ \E E \in SUBSET candidates : G' = [G EXCEPT !.edges = E]
  /\ pc' = next

\* The values a node's `color` attribute takes in the input files.
Colors == {"red", "blue"}

\* The input file's `color` attributes: a colour on any of the nodes.
ReadColors(next) ==
  /\ pc = "read_colors"
  /\ \E c \in [G.nodes -> Colors \cup {None}] :
       G' = [G EXCEPT !.color = Table([v \in {u \in G.nodes : c[u] # None} |-> c[v]])]
  /\ pc' = next

\* The input file's `sign` attributes: +1 or -1 on every edge.
ReadSigns(next) ==
  /\ pc = "read_signs"
  /\ \E s \in [G.edges -> {1, -1}] : G' = [G EXCEPT !.sign = s]
  /\ pc' = next

-----------------------------------------------------------------------------
(* balance(G): breadth-first two-labelling, one seed per component.        *)

\* sign=int(G[u][v].get('sign',1))
SignOf(g, u, v) == IF {u, v} \in DOMAIN g.sign THEN g.sign[{u, v}] ELSE 1

ExpectedIgnoringSign(lu, sign) == lu

\* exp=label[u]* (1 if sign>=0 else -1)
Expected(lu, sign) == lu * (IF sign >= 0 THEN 1 ELSE -1)

\* The loop over the neighbours of u: label and enqueue a new neighbour,
\* stop with ok = FALSE at the first labelled neighbour that disagrees.
RECURSIVE VisitNeighbors(_, _, _, _, _)
VisitNeighbors(g, lab, queue, u, nbrs) ==
  IF nbrs = <<>> THEN [label |-> lab, q |-> queue, ok |-> TRUE]
  ELSE LET v   == Head(nbrs)
           exp == Expected(lab[u], SignOf(g, u, v))
       IN IF v \notin DOMAIN lab
            THEN VisitNeighbors(g, (v :> exp) @@ lab, Append(queue, v), u, Tail(nbrs))
            ELSE IF lab[v] # exp
                   THEN [label |-> lab, q |-> queue, ok |-> FALSE]
                   ELSE VisitNeighbors(g, lab, queue, u, Tail(nbrs))

\* for s in G.nodes(): if s in label: continue
Seeds(g, lab) == g.nodes \ DOMAIN lab

\* The outer loop takes the next node without a label as a seed.
BalanceSeed ==
  /\ pc = "balance"
  /\ q = <<>>
  /\ Seeds(G, label) # {}
  /\ LET s == MinOf(Seeds(G, label))
     IN /\ label' = (s :> 1) @@ label
        /\ q' = <<s>>
  /\ UNCHANGED <<G, pc, ret, gnLocals, failLocals, temporalLocals, mainLocals>>

\* u=q.popleft() and the loop over its neighbours.
BalanceVisit(next) ==
  /\ pc = "balance"
  /\ q # <<>>
  /\ \E nbrs \in Orderings(Neighbors(G, Head(q))) :
       LET r == VisitNeighbors(G, label, Tail(q), Head(q), nbrs)
       IN /\ label' = r.label
          /\ q' = r.q
          /\ IF r.ok
               THEN UNCHANGED <<pc, ret>>
               ELSE /\ pc' = next
                    /\ ret' = FALSE
  /\ UNCHANGED <<G, gnLocals, failLocals, temporalLocals, mainLocals>>

\* Every node is labelled: return True.
BalanceReturn(next) ==
  /\ pc = "balance"
  /\ q = <<>>
  /\ Seeds(G, label) = {}
  /\ pc' = next
  /\ ret' = TRUE
  /\ UNCHANGED <<G, label, q, gnLocals, failLocals, temporalLocals, mainLocals>>

\* No call is running and none was made.
Idle ==
  /\ label = EmptyMap
  /\ q = <<>>
  /\ ret = None
  /\ n = None
  /\ comp = None
  /\ first = None
  /\ gen = None
  /\ iter = 0
  /\ calls = <<>>
  /\ H = None
  /\ k = None
  /\ trials = None
  /\ res = None
  /\ csv = <<>>
  /\ ev = None
  /\ snaps = None
  /\ start = None
  /\ warned = FALSE
  /\ written = None

InitBalance ==
  /\ G = PlainGraph({}, {})
  /\ pc = "read_nodes"
  /\ Idle

ReadBalance ==
  /\ \/ ReadNodes(NodeSets, "read_edges")
     \/ ReadEdges(PossibleEdges(G.nodes), "read_signs")
     \/ ReadSigns("balance")
  /\ UNCHANGED <<label, q, ret, gnLocals, failLocals, temporalLocals, mainLocals>>

NextBalance ==
  ReadBalance \/ BalanceSeed \/ BalanceVisit("done") \/ BalanceReturn("done")

SpecBalance == InitBalance /\ [][NextBalance]_vars

\* A two-labelling of g that every signed edge agrees with.
Consistent(g, f) ==
  \A e \in g.edges : \A u \in e : \A v \in e :
    (u # v \/ Cardinality(e) = 1) =>
      IF g.sign[e] = 1 THEN f[u] = f[v] ELSE f[u] # f[v]

\* C1: balance(G) returns True exactly when some assignment of two labels
\* to the nodes gives every positive edge equal labels at its ends and every
\* negative edge different labels, and returns False otherwise.
BalanceIffTwoColorable ==
  pc = "done" =>
    /\ ret \in BOOLEAN
    /\ ret = (\E f \in [G.nodes -> {1, -1}] : Consistent(G, f))

\* A disconnected graph with a negative edge was found balanced.
BalanceWitness ==
  /\ pc = "done"
  /\ ret = TRUE
  /\ \E e \in G.edges : G.sign[e] = -1
  /\ \E u \in G.nodes : Neighbors(G, u) = {}

-----------------------------------------------------------------------------
(* Connected components, shortest paths and edge betweenness, as the       *)
(* graph library computes them.                                            *)

\* node -> its neighbours.
Adjacency(g) == Table([u \in g.nodes |-> Neighbors(g, u)])

\* The nodes that paths from the nodes of S reach.
RECURSIVE Closure(_, _)
Closure(adj, S) ==
  LET T == S \cup UNION {adj[u] : u \in S}
  IN IF T = S THEN S ELSE Closure(adj, T)

\* nx.connected_components(G), as a set of node sets.
Components(g) ==
  LET adj == Adjacency(g)
  IN {Closure(adj, {u}) : u \in g.nodes}

\* A set of disjoint non-empty node sets in the order of their least nodes:
\* the order in which a scan of the nodes meets them.
RECURSIVE ByLeastNode(_)
ByLeastNode(P) ==
  IF P = {} THEN <<>>
  ELSE LET c == CHOOSE x \in P : \A d \in P : MinOf(x) <= MinOf(d)
       IN <<c>> \o ByLeastNode(P \ {c})

\* tuple(nx.connected_components(G))
ComponentTuple(g) == ByLeastNode(Components(g))

NumberOfEdges(g) == Cardinality(g.edges)

\* G.remove_edges_from(E): the edges go, and their attributes with them.
RemoveEdgesFrom(g, E) ==
  [g EXCEPT !.edges = @ \ E,
            !.sign = Restrict(@, g.edges \ E),
            !.no = Restrict(@, g.edges \ E)]

SelfLoops(g) == {e \in g.edges : Cardinality(e) = 1}

\* The nodes at distance d from s, for d = 0, 1, ...: layers[d + 1].
RECURSIVE Layers(_, _, _)
Layers(adj, seen, layers) ==
  LET last == layers[Len(layers)]
      new  == (UNION {adj[u] : u \in last}) \ seen
  IN IF new = {} THEN layers ELSE Layers(adj, seen \cup new, Append(layers, new))

RECURSIVE SumOver(_, _)
SumOver(f, S) ==
  IF S = {} THEN 0
  ELSE LET x == CHOOSE y \in S : TRUE IN f[x] + SumOver(f, S \ {x})

RECURSIVE ProductOver(_, _)
ProductOver(f, S) ==
  IF S = {} THEN 1
  ELSE LET x == CHOOSE y \in S : TRUE IN f[x] * ProductOver(f, S \ {x})

\* The lengths of the shortest paths from s: node -> length, for the nodes
\* s reaches.
DistancesIn(layers) ==
  Table([t \in UNION {layers[d] : d \in 1..Len(layers)} |->
           (CHOOSE d \in 1..Len(layers) : t \in layers[d]) - 1])

\* The numbers of shortest paths from s, layer by layer: a node has as
\* many as its neighbours of the layer before have together.
RECURSIVE PathCounts(_, _, _, _)
PathCounts(adj, layers, d, sigma) ==
  IF d > Len(layers) THEN sigma
  ELSE PathCounts(adj, layers, d + 1,
         [t \in layers[d] |-> SumOver(sigma, adj[t] \cap layers[d - 1])] @@ sigma)

\* nx.edge_betweenness_centrality(G): for an edge, the sum over the pairs
\* of nodes s, t of the share of the shortest s-t paths that run over it.
\* Every share is scaled by the same factor, the product of all the pairs'
\* path counts, which keeps the sums whole numbers and their order.
EdgeBetweenness(g) ==
  LET adj   == Adjacency(g)
      lay   == Table([s \in g.nodes |-> Layers(adj, {s}, <<{s}>>)])
      dist  == Table([s \in g.nodes |-> DistancesIn(lay[s])])
      sigma == Table([s \in g.nodes |-> PathCounts(adj, lay[s], 2, (s :> 1))])
      pairs == {p \in g.nodes \X g.nodes : p[1] < p[2] /\ p[2] \in DOMAIN dist[p[1]]}
      scale == ProductOver([p \in pairs |-> sigma[p[1]][p[2]]], pairs)
      over(s, t, x, y) ==
        IF x \in DOMAIN dist[s] /\ dist[s][x] + 1 + dist[y][t] = dist[s][t]
          THEN sigma[s][x] * sigma[y][t] ELSE 0
      share(p, e) ==
        LET a == MinOf(e)
            b == CHOOSE x \in e : x # a
        IN (over(p[1], p[2], a, b) + over(p[1], p[2], b, a))
             * (scale \div sigma[p[1]][p[2]])
  IN Table([e \in g.edges |-> SumOver([p \in pairs |-> share(p, e)], pairs)])

\* max(betweenness, key=betweenness.get): an edge of greatest betweenness;
\* among equals the first in edge order, which is any of them.
MostValuableEdges(g) ==
  LET bc == EdgeBetweenness(g)
  IN {e \in g.edges : \A f \in g.edges : bc[e] >= bc[f]}

-----------------------------------------------------------------------------
(* girvan_newman(G), the library's generator, and the program's            *)
(* girvan_newman_partition(G, n).                                          *)

\* One more than the largest number of nodes: the largest request.
MaxRequest == MaxNodes + 1

\* girvan_newman(G): a generator that has not run yet.  Its state is where
\* it stands: "new" before it runs, "last" at the one yield of a graph
\* without edges, "loop" at the yield of its loop, "removing" inside
\* _without_most_central_edges, "done" when it has returned.
GirvanNewman(g) == [state |-> "new", g |-> g, original |-> 0]

\* The generator's loop test, while g.number_of_edges() > 0: it returns, or
\* enters _without_most_central_edges with the number of components noted.
LoopTest(gn) ==
  IF NumberOfEdges(gn.g) = 0
    THEN [gn EXCEPT !.state = "done"]
    ELSE [gn EXCEPT !.state = "removing", !.original = Cardinality(Components(gn.g))]

\* next(gen) up to the first edge removal.  A graph without edges yields
\* its components once; otherwise the self-loops are dropped from a copy
\* and the loop runs on the copy.
Resume(gn) ==
  CASE gn.state = "new" ->
         IF NumberOfEdges(gn.g) = 0
           THEN [gn EXCEPT !.state = "last"]
           ELSE LoopTest([gn EXCEPT !.g = RemoveEdgesFrom(gn.g, SelfLoops(gn.g))])
    [] gn.state = "loop" -> LoopTest(gn)
    [] OTHER -> [gn EXCEPT !.state = "done"]

\* One turn of the loop of _without_most_central_edges: the edge goes, and
\* the generator yields once there are more components than before.
RemoveEdge(gn, e) ==
  LET h == RemoveEdgesFrom(gn.g, {e})
  IN [gn EXCEPT !.g = h,
                !.state = IF Cardinality(Components(h)) <= gn.original
                            THEN "removing" ELSE "loop"]

\* The call girvan_newman_partition(G, n) with a requested count n >= 1; a
\* second call requests at least as many.
GNCall ==
  /\ pc = "call"
  /\ \E req \in 1..MaxRequest :
       /\ calls # <<>> => req >= calls[Len(calls)].n
       /\ n' = req
  /\ pc' = "gn_first"
  /\ ret' = None
  /\ UNCHANGED <<G, comp, first, gen, iter, calls, balanceLocals, failLocals, temporalLocals, mainLocals>>

\* gen=girvan_newman(G), and the loop starts.
EnterLoop ==
  /\ gen' = GirvanNewman(G)
  /\ iter' = 0
  /\ pc' = "gn_loop"

\* comp=nx.connected_components(G) if G.number_of_edges()==0
\*      else next(girvan_newman(G))
\* A StopIteration of this first generator is not caught.
GNFirst ==
  /\ pc = "gn_first"
  /\ IF NumberOfEdges(G) = 0
       THEN /\ comp' = ComponentTuple(G)
            /\ first' = None
            /\ EnterLoop
       ELSE LET gn == Resume(GirvanNewman(G))
            IN /\ first' = gn
               /\ pc' = IF gn.state = "done" THEN "StopIteration" ELSE "gn_first_next"
               /\ UNCHANGED <<comp, gen, iter>>
  /\ UNCHANGED <<G, ret, n, calls, balanceLocals, failLocals, temporalLocals, mainLocals>>

\* The first generator removes a most central edge; when it yields, comp
\* is what it yields and the generator is dropped.
GNFirstNext ==
  /\ pc = "gn_first_next"
  /\ \E e \in MostValuableEdges(first.g) :
       LET gn == RemoveEdge(first, e)
       IN IF gn.state = "loop"
            THEN /\ comp' = ComponentTuple(gn.g)
                 /\ first' = None
                 /\ EnterLoop
            ELSE /\ first' = gn
                 /\ UNCHANGED <<comp, gen, iter, pc>>
  /\ UNCHANGED <<G, ret, n, calls, balanceLocals, failLocals, temporalLocals, mainLocals>>

\* range(n-1)
LoopBound(req) == req - 1

ExceptReset(c) == <<>>

\* except: pass, after which comp is what it was.
ExceptPass(c) == c

\* for _ in range(n-1): comp=next(gen), up to the first edge removal, and
\* except: pass, which ends the loop when the generator has returned.
GNLoop ==
  /\ pc = "gn_loop"
  /\ iter < LoopBound(n)
  /\ LET gn == Resume(gen)
     IN /\ gen' = gn
        /\ CASE gn.state = "last" ->
                  /\ comp' = ComponentTuple(gn.g)
                  /\ iter' = iter + 1
                  /\ UNCHANGED pc
             [] gn.state = "removing" ->
                  /\ pc' = "gn_next"
                  /\ UNCHANGED <<comp, iter>>
             [] OTHER ->
                  /\ pc' = "gn_return"
                  /\ comp' = ExceptPass(comp)
                  /\ UNCHANGED iter
  /\ UNCHANGED <<G, ret, n, first, calls, balanceLocals, failLocals, temporalLocals, mainLocals>>

\* gen removes a most central edge; when it yields, comp is what it yields
\* and the loop goes on.
GNNext ==
  /\ pc = "gn_next"
  /\ \E e \in MostValuableEdges(gen.g) :
       LET gn == RemoveEdge(gen, e)
       IN /\ gen' = gn
          /\ IF gn.state = "loop"
               THEN /\ comp' = ComponentTuple(gn.g)
                    /\ iter' = iter + 1
                    /\ pc' = "gn_loop"
               ELSE UNCHANGED <<comp, iter, pc>>
  /\ UNCHANGED <<G, ret, n, first, calls, balanceLocals, failLocals, temporalLocals, mainLocals>>

\* The loop has made its n-1 turns.
GNLoopEnd ==
  /\ pc = "gn_loop"
  /\ iter >= LoopBound(n)
  /\ pc' = "gn_return"
  /\ UNCHANGED <<G, ret, n, comp, first, gen, iter, calls, balanceLocals, failLocals,
                 temporalLocals, mainLocals>>

\* [sorted(list(c)) for c in comp]
SortedLists(cs) == [j \in 1..Len(cs) |-> Sorted(cs[j])]

\* return [sorted(list(c)) for c in comp]: the locals go, and the caller
\* notes the request and the number of communities it got.
GNReturn(next) ==
  /\ pc = "gn_return"
  /\ ret' = SortedLists(comp)
  /\ calls' = Append(calls, [n |-> n, count |-> Len(SortedLists(comp))])
  /\ pc' = next
  /\ n' = None
  /\ comp' = None
  /\ gen' = None
  /\ iter' = 0
  /\ UNCHANGED <<G, first, balanceLocals, failLocals, temporalLocals, mainLocals>>

InitGN ==
  /\ G = PlainGraph({}, {})
  /\ pc = "read_nodes"
  /\ Idle

ReadGN ==
  /\ \/ ReadNodes(NodeSets, "read_edges")
     \/ ReadEdges(PossibleEdges(G.nodes), "call")
  /\ UNCHANGED <<ret, gnLocals, balanceLocals, failLocals, temporalLocals, mainLocals>>

\* The caller makes two calls.
NextGN ==
  \/ ReadGN
  \/ GNCall
  \/ GNFirst
  \/ GNFirstNext
  \/ GNLoop
  \/ GNNext
  \/ GNLoopEnd
  \/ GNReturn(IF calls = <<>> THEN "call" ELSE "done")

SpecGN == InitGN /\ [][NextGN]_vars

\* C2: of two calls on the same graph, the one that requests no more
\* communities returns no more communities.
PartitionCountMonotone ==
  \A a, b \in 1..Len(calls) :
    calls[a].n <= calls[b].n => calls[a].count <= calls[b].count

\* Two calls returned, the second with a larger request than the graph has
\* nodes, and with more communities than the first.
PartitionCountWitness ==
  /\ Len(calls) = 2
  /\ calls[1].n < calls[2].n
  /\ calls[2].n > Cardinality(G.nodes)
  /\ calls[1].count < calls[2].count

\* C5: a call that requests n communities, n between the number of
\* connected components and the number of nodes of the graph, returns
\* exactly n communities.
PartitionCountAsRequested ==
  \A a \in 1..Len(calls) :
    (Cardinality(Components(G)) <= calls[a].n /\ calls[a].n <= Cardinality(G.nodes))
      => calls[a].count = calls[a].n

-----------------------------------------------------------------------------
(* homophily(G): Welch's test on the degree similarity of the edges that   *)
(* join equal colours against those that join different colours.           *)

\* list(G.edges()): every edge once, as the pair of its endpoints (a
\* self-loop has both the same).
RECURSIVE EdgeList(_)
EdgeList(E) ==
  IF E = {} THEN <<>>
  ELSE LET e == CHOOSE x \in E : \A y \in E :
                  \/ MinOf(x) < MinOf(y)
                  \/ MinOf(x) = MinOf(y) /\ -MinOf({-w : w \in x}) <= -MinOf({-w : w \in y})
       IN <<<<MinOf(e), -MinOf({-w : w \in e})>>>> \o EdgeList(E \ {e})

\* G.nodes[u].get('color')
ColorOf(g, u) == IF u \in DOMAIN g.color THEN g.color[u] ELSE None

Abs(x) == IF x < 0 THEN -x ELSE x

\* The loop over the edges: an edge with an uncoloured end is skipped, the
\* others append sim=-abs(G.degree(u)-G.degree(v)) to same or to diff.
RECURSIVE Similarities(_, _, _, _)
Similarities(g, es, same, diff) ==
  IF es = <<>> THEN [same |-> same, diff |-> diff]
  ELSE LET u   == Head(es)[1]
           v   == Head(es)[2]
           cu  == ColorOf(g, u)
           cv  == ColorOf(g, v)
           sim == -Abs(Degree(g, u) - Degree(g, v))
       IN IF cu = None \/ cv = None
            THEN Similarities(g, Tail(es), same, diff)
            ELSE IF cu = cv
                   THEN Similarities(g, Tail(es), Append(same, sim), diff)
                   ELSE Similarities(g, Tail(es), same, Append(diff, sim))

NotEnoughInBoth(same, diff) == Len(same) < 2 /\ Len(diff) < 2

\* if len(same)<2 or len(diff)<2
NotEnoughData(same, diff) == Len(same) < 2 \/ Len(diff) < 2

RECURSIVE SeqSum(_)
SeqSum(xs) == IF xs = <<>> THEN 0 ELSE Head(xs) + SeqSum(Tail(xs))

Squares(xs) == [j \in 1..Len(xs) |-> xs[j] * xs[j]]

\* np.mean(same)-np.mean(diff)
MeanDifference(same, diff) ==
  <<SeqSum(same) * Len(diff) - SeqSum(diff) * Len(same), Len(same) * Len(diff)>>

\* np.var(xs,ddof=1)
SampleVariance(xs) ==
  <<Len(xs) * SeqSum(Squares(xs)) - SeqSum(xs) * SeqSum(xs), Len(xs) * (Len(xs) - 1)>>

RatAdd(a, b) == <<a[1] * b[2] + b[1] * a[2], a[2] * b[2]>>

RatScale(a, num, den) == <<a[1] * num, a[2] * den>>

\* The test result.  t is the mean difference over the root of
\* s1/len(same)+s2/len(diff), d the mean difference over the root of the
\* pooled variance (at least 1e-9); both are kept as the pair of the two
\* exact quantities.  With both quantities zero t is nan and with only the
\* second zero it is infinite: the division is the array library's, and
\* rounding keeps either, so neither raises.  p is the test's p-value where
\* the statistics library is installed and the fixed 0.05 where it is not.
TestResult(same, diff, scipy) ==
  LET delta  == MeanDifference(same, diff)
      s1     == SampleVariance(same)
      s2     == SampleVariance(diff)
      se2    == RatAdd(RatScale(s1, 1, Len(same)), RatScale(s2, 1, Len(diff)))
      pooled == RatScale(RatAdd(RatScale(s1, Len(same) - 1, 1),
                                RatScale(s2, Len(diff) - 1, 1)),
                         1, Len(same) + Len(diff) - 2)
  IN [t |-> [over |-> delta, under2 |-> se2],
      p |-> IF scipy THEN "welch" ELSE <<5, 100>>,
      d |-> [over |-> delta, under2 |-> pooled]]

\* homophily(G)
HomophilyOf(g, scipy) ==
  LET lists == Similarities(g, EdgeList(g.edges), <<>>, <<>>)
  IN IF NotEnoughData(lists.same, lists.diff)
       THEN [error |-> "not enough data"]
       ELSE TestResult(lists.same, lists.diff, scipy)

Homophily(next) ==
  /\ pc = "homophily"
  /\ \E scipy \in BOOLEAN : ret' = HomophilyOf(G, scipy)
  /\ pc' = next
  /\ UNCHANGED <<G, gnLocals, balanceLocals, failLocals, temporalLocals, mainLocals>>

InitHomophily ==
  /\ G = PlainGraph({}, {})
  /\ pc = "read_nodes"
  /\ Idle

ReadHomophily ==
  /\ \/ ReadNodes(NodeSets, "read_edges")
     \/ ReadEdges(PossibleEdges(G.nodes), "read_colors")
     \/ ReadColors("homophily")
  /\ UNCHANGED <<ret, gnLocals, balanceLocals, failLocals, temporalLocals, mainLocals>>

NextHomophily == ReadHomophily \/ Homophily("done")

SpecHomophily == InitHomophily /\ [][NextHomophily]_vars

\* The edges with a colour at both ends.
ColoredEdges(g) == {e \in g.edges : e \subseteq DOMAIN g.color}

SameColorEdges(g) == {e \in ColoredEdges(g) : \A u, v \in e : g.color[u] = g.color[v]}

\* C3: homophily returns the error result exactly when, among the edges
\* with a colour at both ends, fewer than 2 join equal colours or fewer
\* than 2 join different colours; otherwise it returns a test result
\* without an error key.
HomophilyErrorIffTooFew ==
  pc = "done" =>
    LET nsame == Cardinality(SameColorEdges(G))
        ndiff == Cardinality(ColoredEdges(G) \ SameColorEdges(G))
    IN IF nsame < 2 \/ ndiff < 2
         THEN ret = [error |-> "not enough data"]
         ELSE DOMAIN ret = {"t", "p", "d"}

\* A test result was returned for a graph with exactly two edges that
\* join equal colours and exactly two that join different colours.
HomophilyWitness ==
  /\ pc = "done"
  /\ DOMAIN ret = {"t", "p", "d"}
  /\ Cardinality(SameColorEdges(G)) = 2
  /\ Cardinality(ColoredEdges(G)) = 4

-----------------------------------------------------------------------------
(* stats(G), simulate_failures(G, k) and robustness(G, k, trials).         *)

\* Largest failure count.
MaxK == 2

\* Largest number of robustness trials.
MaxTrials == 2

\* The failure counts the caller passes: the command line takes any whole
\* number, a negative one too.
FailureCounts == (-1)..MaxK

NoCopy(g) == [graph |-> g, caller |-> TRUE]

\* G.copy(): a reference to a new graph object with the nodes, edges and
\* attributes of g.  `caller` says whether the object referred to is the
\* caller's own graph, which a copy is not.
Copy(g) == [graph |-> g, caller |-> FALSE]

\* The caller's graph after the object h refers to has changed: the same,
\* unless h refers to the caller's graph itself.
SeenByCaller(g, h) == IF h.caller THEN h.graph ELSE g

\* nx.average_shortest_path_length of the connected graph on the nodes c:
\* 0 for a single node, else the sum of the distances over the ordered
\* pairs of different nodes, divided by their number.
AverageShortestPathLength(g, c) ==
  IF Cardinality(c) = 1 THEN <<0, 1>>
  ELSE LET adj  == Adjacency(g)
           dist == Table([s \in c |-> DistancesIn(Layers(adj, {s}, <<{s}>>))])
           rows == Table([s \in c |-> SumOver(dist[s], c)])
       IN <<SumOver(rows, c), Cardinality(c) * (Cardinality(c) - 1)>>

\* What a call gives that raises instead of returning.
Raise == [raise |-> "ValueError"]

\* The body of stats(G) once comps is computed and not looked at: the
\* largest of no components does not exist; else LCC is the first component
\* of the largest size, and aspl its average shortest path length if it
\* has an edge.
StatsOfComponents(g, comps) ==
  IF comps = <<>> THEN Raise
     ELSE LET LCC == comps[CHOOSE j \in 1..Len(comps) :
                             /\ \A m \in 1..Len(comps) :
                                  Cardinality(comps[m]) <= Cardinality(comps[j])
                             /\ \A m \in 1..(j - 1) :
                                  Cardinality(comps[m]) < Cardinality(comps[j])]
          IN [aspl  |-> IF \E e \in g.edges : e \subseteq LCC
                          THEN AverageShortestPathLength(g, LCC) ELSE None,
              n     |-> Len(comps),
              sizes |-> [j \in 1..Len(comps) |-> Cardinality(comps[j])]]

StatsUnguarded(g) == StatsOfComponents(g, ComponentTuple(g))

\* stats(G): a graph without components has its own answer.
Stats(g) ==
  LET comps == ComponentTuple(g)
  IN IF comps = <<>>
       THEN [aspl |-> None, n |-> 0, sizes |-> <<>>]
       ELSE StatsOfComponents(g, comps)

\* The subsets of S with `size` members.
RECURSIVE SubsetsOfSize(_, _)
SubsetsOfSize(S, size) ==
  IF size = 0 THEN {{}}
  ELSE IF Cardinality(S) < size THEN {}
  ELSE LET x == CHOOSE y \in S : TRUE
       IN SubsetsOfSize(S \ {x}, size) \cup {T \cup {x} : T \in SubsetsOfSize(S \ {x}, size - 1)}

SampleWithReplacement(population, size) ==
  UNION {SubsetsOfSize(population, m) : m \in (IF size > 0 THEN 1 ELSE 0)..size}

\* random.sample(population, size) raises a ValueError for a size that
\* is negative or larger than the population.
SampleFails(population, size) == size < 0 \/ size > Cardinality(population)

\* random.sample(population, size): every choice of `size` different
\* members.
Sample(population, size) == SubsetsOfSize(population, size)

\* min(k,len(edges))
SampleSize(count, len) == Min(count, len)

\* simulate_failures(G, k)
SimulateFailures(next) ==
  /\ pc = "simulate"
  /\ LET before == Stats(G)
         size   == SampleSize(k, NumberOfEdges(G))
     IN IF before = Raise \/ SampleFails(G.edges, size)
          THEN /\ pc' = "ValueError"
               /\ UNCHANGED <<G, H, ret>>
          ELSE \E rem \in Sample(G.edges, size) :
                 LET h     == [Copy(G) EXCEPT !.graph = RemoveEdgesFrom(@, rem)]
                     after == Stats(h.graph)
                 IN /\ H' = h
                    /\ G' = SeenByCaller(G, h)
                    /\ IF after = Raise
                         THEN /\ pc' = "ValueError"
                              /\ UNCHANGED ret
                         ELSE /\ ret' = <<before, after>>
                              /\ pc' = next
  /\ UNCHANGED <<k, trials, res, iter, label, q, n, comp, first, gen, calls, temporalLocals, mainLocals>>

\* res=[] and the loop starts.
Robustness ==
  /\ pc = "robustness"
  /\ res' = <<>>
  /\ iter' = 0
  /\ pc' = "rob_loop"
  /\ UNCHANGED <<G, H, k, trials, ret, label, q, n, comp, first, gen, calls, temporalLocals, mainLocals>>

\* One trial: a copy loses a sample of its edges and its number of
\* components is appended to res.
RobustnessTrial ==
  /\ pc = "rob_loop"
  /\ iter < trials
  /\ LET size == SampleSize(k, NumberOfEdges(G))
     IN IF SampleFails(G.edges, size)
          THEN /\ pc' = "ValueError"
               /\ UNCHANGED <<G, H, res, iter>>
          ELSE \E rem \in Sample(G.edges, size) :
                 LET h == [Copy(G) EXCEPT !.graph = RemoveEdgesFrom(@, rem)]
                     s == Stats(h.graph)
                 IN /\ H' = h
                    /\ G' = SeenByCaller(G, h)
                    /\ IF s = Raise
                         THEN /\ pc' = "ValueError"
                              /\ UNCHANGED <<res, iter>>
                         ELSE /\ res' = Append(res, s.n)
                              /\ iter' = iter + 1
                              /\ UNCHANGED pc
  /\ UNCHANGED <<k, trials, ret, label, q, n, comp, first, gen, calls, temporalLocals, mainLocals>>

MeanUndivided(xs) == <<SeqSum(xs), 1>>

\* np.mean(res)
Mean(xs) == <<SeqSum(xs), Len(xs)>>

\* np.mean(res) if res else 0
AvgComp(xs) == IF xs # <<>> THEN Mean(xs) ELSE 0

\* return {'avg_comp': ...}
RobustnessReturn(next) ==
  /\ pc = "rob_loop"
  /\ iter >= trials
  /\ ret' = [avg_comp |-> AvgComp(res)]
  /\ pc' = next
  /\ UNCHANGED <<G, H, k, trials, res, iter, label, q, n, comp, first, gen, calls,
                 temporalLocals, mainLocals>>

\* The caller picks the failure count, the function and, for robustness,
\* the number of trials.
FailuresCall ==
  /\ pc = "fail_call"
  /\ k' \in FailureCounts
  /\ \/ /\ pc' = "simulate"
        /\ UNCHANGED trials
     \/ /\ pc' = "robustness"
        /\ trials' \in 0..MaxTrials
  /\ UNCHANGED <<G, H, res, ret, gnLocals, balanceLocals, temporalLocals, mainLocals>>

InitFailures ==
  /\ G = PlainGraph({}, {})
  /\ pc = "read_nodes"
  /\ Idle

ReadFailures ==
  /\ \/ ReadNodes(NodeSets, "read_edges")
     \/ ReadEdges(ProperEdges(G.nodes), "read_signs")
     \/ ReadSigns("fail_call")
  /\ UNCHANGED <<ret, gnLocals, balanceLocals, failLocals, temporalLocals, mainLocals>>

NextFailures ==
  \/ ReadFailures
  \/ FailuresCall
  \/ SimulateFailures("sim_done")
  \/ Robustness
  \/ RobustnessTrial
  \/ RobustnessReturn("rob_done")

SpecFailures == InitFailures /\ [][NextFailures]_vars

\* C4: robustness returns as avg_comp the sum of the trials' component
\* counts divided by the number of trials, which is never negative, and 0
\* when there are no trials.
AvgCompIsMean ==
  pc = "rob_done" =>
    /\ Len(res) = trials
    /\ IF trials = 0
         THEN ret.avg_comp = 0
         ELSE /\ ret.avg_comp[2] = trials
              /\ ret.avg_comp[1] = SeqSum(res)
              /\ ret.avg_comp[1] >= 0

\* Two trials that each left three components were averaged.
AvgCompWitness ==
  /\ pc = "rob_done"
  /\ res = <<3, 3>>
  /\ ret.avg_comp = <<6, 2>>

\* C7: the graph left by the failures of simulate_failures, and of each
\* robustness trial, has the nodes of G and all but min(k, |E|) of the
\* edges of G.
FailuresRemoveSample ==
  (pc = "sim_done" \/ (pc \in {"rob_loop", "rob_done"} /\ iter > 0)) =>
    /\ H.graph.nodes = G.nodes
    /\ H.graph.edges \subseteq G.edges
    /\ Cardinality(H.graph.edges) = Cardinality(G.edges) - Min(k, Cardinality(G.edges))

\* simulate_failures returned for a graph with fewer edges than failures
\* asked for.
FailuresWitness ==
  /\ pc = "sim_done"
  /\ 0 < Cardinality(G.edges)
  /\ Cardinality(G.edges) < k
  /\ H.graph.edges = {}

\* C10: simulate_failures and robustness leave the caller's graph as it
\* is: from the call to the return no step changes the nodes, the edges or
\* an attribute of G.
FailuresLeaveGraph ==
  [][(pc \in {"simulate", "robustness", "rob_loop"}) => (G' = G)]_vars

\* A robustness trial has removed edges from its copy, and the signed
\* graph handed in still has them.
FailuresLeaveGraphWitness ==
  /\ pc = "rob_done"
  /\ iter > 0
  /\ H.graph.edges # G.edges
  /\ DOMAIN G.sign = G.edges
  /\ DOMAIN H.graph.sign = H.graph.edges

-----------------------------------------------------------------------------
(* parse_csv(path) and temporal(G, path, out).                             *)

\* Largest number of rows of an event file.
MaxEvents == 2

\* The nodes the event files name.
EventNodes == {1, 2}

\* The times of the event files, as the seconds that
\* datetime.fromisoformat(r['timestamp']).timestamp() makes of them.
Timestamps == {1, 2}

\* The action column as the files spell it.
ActionsWritten == {"add", "Remove", "update"}

\* The rows csv.DictReader gives.
Rows ==
  [timestamp : Timestamps, source : EventNodes, target : EventNodes,
   action : ActionsWritten]

\* One more row of the event file, of at most `most`.
WriteRow(most) ==
  /\ pc = "write_csv"
  /\ Len(csv) < most
  /\ \E r \in Rows : csv' = Append(csv, r)
  /\ UNCHANGED pc

\* The event file is complete.
CloseCsv(next) ==
  /\ pc = "write_csv"
  /\ pc' = next
  /\ UNCHANGED csv

\* r['action'].lower()
Lower(a) == IF a = "Remove" THEN "remove" ELSE a

\* The lower-case actions in the order of strings.
ActionOrder == <<"add", "remove", "update">>

ActionRank(a) == CHOOSE j \in 1..Len(ActionOrder) : ActionOrder[j] = a

\* (t,r['source'],r['target'],r['action'].lower())
Event(r) == <<r.timestamp, r.source, r.target, Lower(r.action)>>

\* a < b for two event tuples: the first place where they differ decides.
Before(a, b) ==
  \/ a[1] < b[1]
  \/ a[1] = b[1] /\ a[2] < b[2]
  \/ a[1] = b[1] /\ a[2] = b[2] /\ a[3] < b[3]
  \/ a[1] = b[1] /\ a[2] = b[2] /\ a[3] = b[3] /\ ActionRank(a[4]) < ActionRank(b[4])

RECURSIVE Insert(_, _)
Insert(x, s) ==
  IF s = <<>> THEN <<x>>
  ELSE IF Before(x, Head(s)) THEN <<x>> \o s
  ELSE <<Head(s)>> \o Insert(x, Tail(s))

\* sorted(ev) of a list of event tuples.
RECURSIVE SortedEvents(_)
SortedEvents(s) ==
  IF s = <<>> THEN <<>> ELSE Insert(Head(s), SortedEvents(Tail(s)))

\* The loop of parse_csv: the events of the rows in the order of the file.
InFileOrder(file) == [j \in 1..Len(file) |-> Event(file[j])]

ParseCsvUnsorted(file) == InFileOrder(file)

\* parse_csv(path): return sorted(ev)
ParseCsv(file) == SortedEvents(InFileOrder(file))

\* G.add_edge(u,v): an endpoint that is no node yet becomes one; an edge
\* that is there already stays as it is.
AddEdge(g, u, v) == [g EXCEPT !.nodes = @ \cup {u, v}, !.edges = @ \cup {{u, v}}]

\* One turn of the loop of temporal on the graph g.
Apply(g, event) ==
  LET u == event[2]
      v == event[3]
      a == event[4]
  IN IF a = "add" THEN AddEdge(g, u, v)
     ELSE IF a = "remove" /\ {u, v} \in g.edges THEN RemoveEdgesFrom(g, {{u, v}})
     ELSE g

\* The graph object the reference h refers to, where g is the caller's.
Referent(h, g) == IF h.caller THEN g ELSE h.graph

\* upd(i) draws snapshot i at the positions pos, which layout(G) gave the
\* nodes G had at the call: the drawing raises for a node without one.
DrawingRaises(frame, positioned) == ~(frame.nodes \subseteq positioned)

\* ev=parse_csv(path); pos=layout(G); snaps=[]
TemporalCall ==
  /\ pc = "temporal"
  /\ ev' = ParseCsv(csv)
  /\ snaps' = <<>>
  /\ start' = G
  /\ iter' = 0
  /\ pc' = "temporal_loop"
  /\ UNCHANGED <<G, csv, ret, label, q, n, comp, first, gen, calls, failLocals, mainLocals>>

\* The loop's turn for the next event, and snaps.append(G.copy()).
TemporalStep ==
  /\ pc = "temporal_loop"
  /\ iter < Len(ev)
  /\ G' = Apply(G, ev[iter + 1])
  /\ snaps' = Append(snaps, Copy(G'))
  /\ iter' = iter + 1
  /\ UNCHANGED <<pc, csv, ev, start, ret, label, q, n, comp, first, gen, calls,
                 failLocals, mainLocals>>

\* The loop is over.  With an output path the snapshots are drawn and
\* saved, which raises when a drawing does; the saving of no frames at all
\* raises or not with the version of the plotting library.  Then
\* return len(ev).
TemporalReturn(next) ==
  /\ pc = "temporal_loop"
  /\ iter >= Len(ev)
  /\ \E out \in BOOLEAN :
       \/ /\ out
          /\ \/ snaps = <<>>
             \/ \E j \in 1..Len(snaps) : DrawingRaises(Referent(snaps[j], G), start.nodes)
          /\ pc' = "NetworkXError"
          /\ UNCHANGED ret
       \/ /\ out => \A j \in 1..Len(snaps) : ~DrawingRaises(Referent(snaps[j], G), start.nodes)
          /\ ret' = Len(ev)
          /\ pc' = next
  /\ UNCHANGED <<G, iter, label, q, n, comp, first, gen, calls, failLocals,
                 temporalLocals, mainLocals>>

InitTemporal ==
  /\ G = PlainGraph({}, {})
  /\ pc = "read_nodes"
  /\ Idle

\* The graph is any graph on some of the nodes the events name.
ReadTemporal ==
  /\ \/ ReadNodes(SUBSET EventNodes, "read_edges")
     \/ ReadEdges(PossibleEdges(G.nodes), "write_csv")
  /\ UNCHANGED <<ret, gnLocals, balanceLocals, failLocals, temporalLocals, mainLocals>>

WriteTemporal ==
  /\ \/ WriteRow(MaxEvents)
     \/ CloseCsv("temporal")
  /\ UNCHANGED <<G, ret, gnLocals, balanceLocals, failLocals, ev, snaps, start, mainLocals>>

NextTemporal ==
  \/ ReadTemporal
  \/ WriteTemporal
  \/ TemporalCall
  \/ TemporalStep
  \/ TemporalReturn("temporal_done")

SpecTemporal == InitTemporal /\ [][NextTemporal]_vars

\* How often x occurs in the sequence s.
Occurrences(s, x) == Cardinality({j \in 1..Len(s) : s[j] = x})

\* The events among the first i that add or remove the edge e.
Touching(e, i) ==
  {j \in 1..i : {ev[j][2], ev[j][3]} = e /\ ev[j][4] \in {"add", "remove"}}

\* The edges after the first i events: those whose last add or remove is
\* an add, and the edges of the start that none of the events touches.
EdgesAfter(i) ==
  {e \in PossibleEdges(start.nodes \cup EventNodes) :
     IF Touching(e, i) = {}
       THEN e \in start.edges
       ELSE ev[CHOOSE j \in Touching(e, i) : \A m \in Touching(e, i) : m <= j][4] = "add"}

\* The nodes after the first i events: those of the start and the ends of
\* the edges added.
NodesAfter(i) ==
  start.nodes \cup UNION {{ev[j][2], ev[j][3]} : j \in {m \in 1..i : ev[m][4] = "add"}}

\* C6: the events replayed are the events of the file in non-decreasing
\* order of time; every event replayed has left one snapshot, and the i-th
\* snapshot is, whatever happened after it was taken, the start graph with
\* the first i events applied (an add puts the edge and its missing ends
\* in, a remove takes the edge out if it is there); the value returned is
\* the number of events.
TemporalReplaysInOrder ==
  pc \in {"temporal_loop", "temporal_done", "NetworkXError"} =>
    /\ Len(ev) = Len(csv)
    /\ \A j \in 1..Len(csv) :
         Occurrences(ev, Event(csv[j])) = Occurrences(InFileOrder(csv), Event(csv[j]))
    /\ \A j \in 1..(Len(ev) - 1) : ev[j][1] <= ev[j + 1][1]
    /\ Len(snaps) = iter
    /\ iter <= Len(ev)
    /\ \A j \in 1..Len(snaps) :
         /\ Referent(snaps[j], G).nodes = NodesAfter(j)
         /\ Referent(snaps[j], G).edges = EdgesAfter(j)
    /\ pc = "temporal_done" => (ret = Len(csv) /\ Len(snaps) = Len(csv))

\* The file's later row had the earlier time; replayed first, it added an
\* edge to a node the graph did not have, and the other event removed the
\* edge again: the two snapshots differ.
TemporalWitness ==
  /\ pc = "temporal_done"
  /\ Len(csv) = 2
  /\ csv[1].timestamp > csv[2].timestamp
  /\ ~(snaps[1].graph.nodes \subseteq start.nodes)
  /\ snaps[1].graph.edges # snaps[2].graph.edges
  /\ snaps[1].graph.edges # start.edges
  /\ G = snaps[2].graph
  /\ ret = 2

-----------------------------------------------------------------------------
(* main(): the graph is loaded and annotated, and the analyses the         *)
(* command line asks for run one after the other on the same graph.        *)

\* Largest number of rows of the event file of a whole run.
MainEvents == 1

\* The locals of every call that has returned are gone.
Forget ==
  /\ ret' = None
  /\ label' = EmptyMap
  /\ q' = <<>>
  /\ n' = None
  /\ comp' = None
  /\ first' = None
  /\ gen' = None
  /\ iter' = 0
  /\ calls' = <<>>
  /\ H' = None
  /\ k' = None
  /\ trials' = None
  /\ res' = None
  /\ csv' = <<>>
  /\ ev' = None
  /\ snaps' = None
  /\ start' = None

locals == <<ret, balanceLocals, gnLocals, failLocals, temporalLocals>>

\* if not os.path.exists(path): raise FileNotFoundError(path)
LoadGraph ==
  /\ pc = "load"
  /\ \E exists \in BOOLEAN : pc' = IF exists THEN "read_nodes" ELSE "FileNotFoundError"
  /\ UNCHANGED <<G, locals, mainLocals>>

\* nx.read_gml(path): any graph without self-loops.
ReadMain ==
  /\ \/ ReadNodes(NodeSets, "read_edges")
     \/ ReadEdges(ProperEdges(G.nodes), "loaded")
  /\ UNCHANGED <<locals, mainLocals>>

\* if G.number_of_nodes()==0: eprint('[warn] Empty graph')
LoadWarn ==
  /\ pc = "loaded"
  /\ warned' = (Cardinality(G.nodes) = 0)
  /\ pc' = "clustering"
  /\ UNCHANGED <<G, locals, written>>

\* nx.clustering(G): for a node with d neighbours other than itself and t
\* edges among them, t/(d(d-1)/2), and 0 without such an edge.
ClusteringOf(g) ==
  Table([u \in g.nodes |->
    LET nbrs == Neighbors(g, u) \ {u}
        d    == Cardinality(nbrs)
        t    == Cardinality({e \in g.edges : Cardinality(e) = 2 /\ e \subseteq nbrs})
    IN IF t = 0 THEN 0 ELSE <<2 * t, d * (d - 1)>>])

\* clustering(G): every node gets its `cc`.
Clustering(g) == [g EXCEPT !.cc = ClusteringOf(g) @@ @]

\* The loop of overlap(G): the neighbours the ends of an edge share, among
\* all the neighbours of the two ends but the ends themselves.
OverlapOf(g) ==
  Table([e \in g.edges |->
    LET u  == MinOf(e)
        v  == IF e = {u} THEN u ELSE MinOf(e \ {u})
        Nu == Neighbors(g, u) \ {v}
        Nv == Neighbors(g, v) \ {u}
        d  == Cardinality(Nu \cup Nv)
    IN IF d = 0 THEN 0 ELSE <<Cardinality(Nu \cap Nv), d>>])

\* overlap(G): every edge gets its `no`.
Overlap(g) == [g EXCEPT !.no = OverlapOf(g) @@ @]

\* clustering(G) or overlap(G), called for its effect on G.
Annotation(g, next) ==
  /\ G' = g
  /\ pc' = next
  /\ UNCHANGED <<locals, mainLocals>>

\* clustering(G); overlap(G)
MainClustering ==
  \/ pc = "clustering" /\ Annotation(Clustering(G), "overlap")
  \/ pc = "overlap" /\ Annotation(Overlap(G), "main_components")

\* The counts --components asks for: a count of 0 asks for nothing.
ComponentRequests == {-1} \cup 1..MaxRequest

\* if a.components: parts=girvan_newman_partition(G,a.components)
MainComponents ==
  /\ pc = "main_components"
  /\ \/ /\ pc' = "main_plot"
        /\ UNCHANGED n
     \/ /\ n' \in ComponentRequests
        /\ pc' = "gn_first"
  /\ UNCHANGED <<G, ret, comp, first, gen, iter, calls, balanceLocals, failLocals,
                 temporalLocals, mainLocals>>

\* annotate(G, parts): the nodes of the i-th part get i-1 as `community`.
Annotate(g, parts) ==
  [g EXCEPT !.community =
     Table([u \in UNION {{parts[j][m] : m \in 1..Len(parts[j])} : j \in 1..Len(parts)} |->
              (CHOOSE j \in 1..Len(parts) : \E m \in 1..Len(parts[j]) : parts[j][m] = u) - 1])
     @@ @]

\* annotate(G,parts); eprint(f'Communities: {len(parts)}')
MainAnnotate ==
  /\ pc = "annotate"
  /\ G' = Annotate(G, ret)
  /\ pc' = "main_plot"
  /\ Forget
  /\ UNCHANGED mainLocals

\* The modes --plot is given.
PlotModes == {"C", "N", "P", "T"}

\* plot_graph(G, mode, out) as far as G goes: mode C computes the `cc`
\* again and mode N the `no`.
PlotGraph(g, mode) ==
  IF mode = "C" THEN Clustering(g)
  ELSE IF mode = "N" THEN Overlap(g)
  ELSE g

\* if a.plot: plot_graph(G,a.plot,a.plot_out)
MainPlot ==
  /\ pc = "main_plot"
  /\ \/ UNCHANGED G
     \/ \E mode \in PlotModes : G' = PlotGraph(G, mode)
  /\ pc' = "main_homophily"
  /\ UNCHANGED <<locals, mainLocals>>

\* An option that takes no value: the call is made or left out.
MainOption(at, call, next) ==
  /\ pc = at
  /\ pc' \in {call, next}
  /\ UNCHANGED <<G, locals, mainLocals>>

\* The result of the call is printed.
MainPrint(at, next) ==
  /\ pc = at
  /\ pc' = next
  /\ Forget
  /\ UNCHANGED <<G, mainLocals>>

\* if a.simulate_failures is not None: simulate_failures(G,a.simulate_failures)
MainSimulate ==
  /\ pc = "main_simulate"
  /\ \/ /\ pc' = "main_robustness"
        /\ UNCHANGED k
     \/ /\ k' \in FailureCounts
        /\ pc' = "simulate"
  /\ UNCHANGED <<G, H, trials, res, ret, gnLocals, balanceLocals, temporalLocals, mainLocals>>

\* if a.robustness_check: robustness(G,a.robustness_check,a.robustness_trials)
MainRobustness ==
  /\ pc = "main_robustness"
  /\ \/ /\ pc' = "main_temporal"
        /\ UNCHANGED <<k, trials>>
     \/ /\ k' \in FailureCounts \ {0}
        /\ trials' \in 0..MaxTrials
        /\ pc' = "robustness"
  /\ UNCHANGED <<G, H, res, ret, gnLocals, balanceLocals, temporalLocals, mainLocals>>

\* The event file --temporal_simulation names.
MainEventFile ==
  /\ \/ WriteRow(MainEvents)
     \/ CloseCsv("temporal")
  /\ UNCHANGED <<G, ret, gnLocals, balanceLocals, failLocals, ev, snaps, start, mainLocals>>

\* export_graph(G, out): a copy of G is written.
ExportGraph(g) == Copy(g).graph

\* if a.output: export_graph(G,a.output)
MainExport ==
  /\ pc = "main_export"
  /\ \/ /\ pc' = "done"
        /\ UNCHANGED written
     \/ /\ written' = ExportGraph(G)
        /\ pc' = "exported"
  /\ UNCHANGED <<G, locals, warned>>

InitMain ==
  /\ G = PlainGraph({}, {})
  /\ pc = "load"
  /\ Idle

NextMain ==
  \/ LoadGraph
  \/ ReadMain
  \/ LoadWarn
  \/ MainClustering
  \/ MainComponents
  \/ GNFirst
  \/ GNFirstNext
  \/ GNLoop
  \/ GNNext
  \/ GNLoopEnd
  \/ GNReturn("annotate")
  \/ MainAnnotate
  \/ MainPlot
  \/ MainOption("main_homophily", "homophily", "main_balance")
  \/ Homophily("print_homophily")
  \/ MainPrint("print_homophily", "main_balance")
  \/ MainOption("main_balance", "balance", "main_simulate")
  \/ BalanceSeed
  \/ BalanceVisit("print_balance")
  \/ BalanceReturn("print_balance")
  \/ MainPrint("print_balance", "main_simulate")
  \/ MainSimulate
  \/ SimulateFailures("print_simulate")
  \/ MainPrint("print_simulate", "main_robustness")
  \/ MainRobustness
  \/ Robustness
  \/ RobustnessTrial
  \/ RobustnessReturn("print_robustness")
  \/ MainPrint("print_robustness", "main_temporal")
  \/ MainOption("main_temporal", "write_csv", "main_export")
  \/ MainEventFile
  \/ TemporalCall
  \/ TemporalStep
  \/ TemporalReturn("print_temporal")
  \/ MainPrint("print_temporal", "main_export")
  \/ MainExport

SpecMain == InitMain /\ [][NextMain]_vars

\* What stats gives for a graph without nodes.
NothingToReport == [aspl |-> None, n |-> 0, sizes |-> <<>>]

WrittenGraphAnnotated ==
  pc = "exported" =>
    /\ \A u \in written.nodes : u \in DOMAIN written.cc
    /\ \A e \in written.edges : e \in DOMAIN written.no

=============================================================================
